---- MODULE Spec2Model ----
(***************************************************************************)
(* Merkle Mountain Ranges of hashcloak/plonky2-merkle-trees.               *)
(*                                                                         *)
(* The module models the bitmap-driven accumulator `MMR`                   *)
(* (src/mmr/merkle_mountain_ranges.rs), the height-array accumulator       *)
(* `naive_MMR` (src/mmr/naive_merkle_mountain_ranges.rs) and the index     *)
(* mappings get_mmr_index / get_standard_index, and the bounded            *)
(* IncrementalTree of src/lib.rs.                                          *)
(*                                                                         *)
(* Rust vectors are 0-indexed, TLA+ sequences 1-indexed: every operator    *)
(* keeps the Rust index and reads a vector through At(s, i) == s[i + 1].   *)
(*                                                                         *)
(* A digest (HashOut<GoldilocksField>, four field elements) is a term:     *)
(*   <<"elts", <<a, b, c, d>>>>  four literal field elements,              *)
(*   <<"node", l, r>>            PoseidonHash::two_to_one(l, r),           *)
(*   <<"hash", ds>>              Poseidon over the elements of three or    *)
(*                               more digests ds (over those of two it is  *)
(*                               the permutation that two_to_one runs).    *)
(* Poseidon is taken as collision free: distinct terms, distinct digests.  *)
(***************************************************************************)
EXTENDS Integers, Sequences, FiniteSets, TLC

VARIABLES
  build,      \* "debug" (overflow checks on, as under cargo test) or "release"
  elements,   \* MMR.elements
  leaves,     \* the values given to MMR::add_leaf so far, in order
  pr,         \* the MMR_proof a caller holds, with the root taken beside it
  ret,        \* what the last call returned
  naive,      \* the naive_MMR object
  ix,         \* input and result of the index mappings
  tree,       \* the IncrementalTree object (src/lib.rs)
  adding      \* the locals of an add_leaf that has not returned yet

vars == <<build, elements, leaves, pr, ret, naive, ix, tree, adding>>

\* ------------------------------------------------------------------ bounds

\* Most leaves an accumulator is grown to where proofs are built.
MaxLeaves == 16

\* Most leaves the accumulator is grown to where only its peaks are read.
MaxGrowLeaves == 32

\* How far past the last element, or the last leaf, a proof is asked for.
MaxBeyond == 3

\* Deepest IncrementalTree that is built.
MaxDepth == 3
MaxCircuitLeaves == 7
MaxStepLeaves == 32

\* ------------------------------------------------------------- arithmetic

At(s, i) == s[i + 1]

RECURSIVE Pow2(_)
Pow2(e) == IF e = 0 THEN 1 ELSE 2 * Pow2(e - 1)

\* i32::MAX = 2^31 - 1, which is also u32::MAX >> 1.
MaxI32 == (Pow2(30) - 1) + Pow2(30)

\* Number of set bits.
RECURSIVE PopCount(_)
PopCount(n) == IF n = 0 THEN 0 ELSE (n % 2) + PopCount(n \div 2)

\* Number of bits needed to write n: 64 - n.leading_zeros() for a usize.
RECURSIVE BitLen(_)
BitLen(n) == IF n = 0 THEN 0 ELSE 1 + BitLen(n \div 2)

\* ----------------------------------------------------------------- hashes

\* PoseidonHash::hash_or_noop(&[leaf]): one element is at most four, so the
\* input is copied, zero padded, into the digest (no permutation is run).
hash_or_noop_leaf(leaf) == <<"elts", <<leaf, 0, 0, 0>>>>

\* PoseidonHash::two_to_one(left, right)
two_to_one(left, right) == <<"node", left, right>>

\* PoseidonHash::hash_no_pad over the flattened elements of two or more
\* digests. The eight elements of two digests fill the rate of the sponge and
\* are absorbed by one permutation of the state two_to_one sets up, which is
\* why the circuit may fold a path with hash_or_noop where verify calls
\* two_to_one.
hash_no_pad_digests(ds) ==
  IF Len(ds) = 2 THEN two_to_one(ds[1], ds[2]) ELSE <<"hash", ds>>

\* PoseidonHash::hash_or_noop over the flattened elements of a list of
\* digests: nothing gives the zero digest, one digest (four elements) is
\* copied as it is, more are hashed.
hash_or_noop_digests(ds) ==
  IF Len(ds) = 0 THEN <<"elts", <<0, 0, 0, 0>>>>
  ELSE IF Len(ds) = 1 THEN ds[1]
  ELSE hash_no_pad_digests(ds)

\* --------------------------------------------------------------- bitmap

\* Faulty variant of heights_bitmap_loop: a subtree that fits exactly is left out.
RECURSIVE heights_bitmap_loop_strict(_, _, _)
heights_bitmap_loop_strict(subtree_size, updated_mmr_size, peaks) ==
  IF subtree_size = 0 THEN <<peaks, updated_mmr_size>>
  ELSE IF updated_mmr_size > subtree_size
       THEN heights_bitmap_loop_strict(subtree_size \div 2,
                                       updated_mmr_size - subtree_size, 2 * peaks + 1)
       ELSE heights_bitmap_loop_strict(subtree_size \div 2, updated_mmr_size, 2 * peaks)

RECURSIVE heights_bitmap_loop(_, _, _)
heights_bitmap_loop(subtree_size, updated_mmr_size, peaks) ==
  IF subtree_size = 0 THEN <<peaks, updated_mmr_size>>
  ELSE IF updated_mmr_size >= subtree_size
       THEN heights_bitmap_loop(subtree_size \div 2,
                                updated_mmr_size - subtree_size, 2 * peaks + 1)
       ELSE heights_bitmap_loop(subtree_size \div 2, updated_mmr_size, 2 * peaks)

\* Faulty variant of get_heights_bitmap_for_mmr_size: the first subtree size
\* tried is one bit too short.
get_heights_bitmap_short(mmr_size) ==
  IF mmr_size = 0 THEN <<0, 0>>
  ELSE heights_bitmap_loop(Pow2(BitLen(mmr_size) - 1) - 1, mmr_size, 0)

\* get_heights_bitmap_for_mmr_size(mmr_size) -> (peaks bitmap, remainder)
get_heights_bitmap_for_mmr_size(mmr_size) ==
  IF mmr_size = 0 THEN <<0, 0>>
  ELSE heights_bitmap_loop(Pow2(BitLen(mmr_size)) - 1, mmr_size, 0)

\* ------------------------------------------------------------- MMR::add_leaf

\* Faulty variant of add_leaf_loop: the carry stops after the first merge.
RECURSIVE add_leaf_loop_no_carry(_, _, _, _, _)
add_leaf_loop_no_carry(elems, peaks, height, current_pos, next_hash) ==
  IF peaks > 0 /\ peaks % 2 = 1 /\ height = 1
  THEN LET prev_peak_index == current_pos - (Pow2(height) - 1)
           prev_peak == At(elems, prev_peak_index)
           merged == two_to_one(prev_peak, next_hash)
       IN  add_leaf_loop_no_carry(Append(elems, merged), peaks \div 2, height + 1,
                                  current_pos + 1, merged)
  ELSE elems

\* Faulty variant of add_leaf_loop: the new node is the left operand of the merge.
RECURSIVE add_leaf_loop_new_on_left(_, _, _, _, _)
add_leaf_loop_new_on_left(elems, peaks, height, current_pos, next_hash) ==
  IF peaks > 0 /\ peaks % 2 = 1
  THEN LET prev_peak_index == current_pos - (Pow2(height) - 1)
           prev_peak == At(elems, prev_peak_index)
           merged == two_to_one(next_hash, prev_peak)
       IN  add_leaf_loop_new_on_left(Append(elems, merged), peaks \div 2, height + 1,
                                     current_pos + 1, merged)
  ELSE elems

RECURSIVE add_leaf_loop(_, _, _, _, _)
add_leaf_loop(elems, peaks, height, current_pos, next_hash) ==
  IF peaks > 0 /\ peaks % 2 = 1
  THEN LET prev_peak_index == current_pos - (Pow2(height) - 1)
           prev_peak == At(elems, prev_peak_index)
           merged == two_to_one(prev_peak, next_hash)
       IN  add_leaf_loop(Append(elems, merged), peaks \div 2, height + 1,
                         current_pos + 1, merged)
  ELSE elems

\* Faulty variant of add_leaf: a merge is written over the peak it merges, as on a
\* stack of peaks, so that stored elements are lost.
add_leaf_replacing(elems, leaf) ==
  IF Len(elems) = 0 THEN <<hash_or_noop_leaf(leaf)>>
  ELSE LET next_hash == hash_or_noop_leaf(leaf)
           peaks == get_heights_bitmap_for_mmr_size(Len(elems))[1]
       IN  IF peaks % 2 = 1
           THEN Append(SubSeq(elems, 1, Len(elems) - 1),
                       two_to_one(elems[Len(elems)], next_hash))
           ELSE Append(elems, next_hash)

\* MMR::add_leaf(&mut self, leaf): the elements after the call.
add_leaf(elems, leaf) ==
  IF Len(elems) = 0 THEN <<hash_or_noop_leaf(leaf)>>
  ELSE LET next_hash == hash_or_noop_leaf(leaf)
           peaks == get_heights_bitmap_for_mmr_size(Len(elems))[1]
           current_pos == Len(elems)
       IN  add_leaf_loop(Append(elems, next_hash), peaks, 1, current_pos, next_hash)

\* ------------------------------------------------------------ MMR::get_peaks

Ok(v) == [panicked |-> FALSE, val |-> v]
Panic == [panicked |-> TRUE, val |-> <<>>]

\* Faulty variant of get_peaks_loop: the peaks are listed shortest mountain first.
RECURSIVE get_peaks_loop_reversed(_, _, _, _, _)
get_peaks_loop_reversed(elems, max_tree_size, current_index, peak_pos, peaks) ==
  IF max_tree_size = 0 THEN peaks
  ELSE IF current_index >= max_tree_size
       THEN get_peaks_loop_reversed(elems, max_tree_size \div 2,
                                    current_index - max_tree_size,
                                    peak_pos + max_tree_size,
                                    <<At(elems, peak_pos + max_tree_size - 1)>> \o peaks)
       ELSE get_peaks_loop_reversed(elems, max_tree_size \div 2, current_index,
                                    peak_pos, peaks)

RECURSIVE get_peaks_loop(_, _, _, _, _)
get_peaks_loop(elems, max_tree_size, current_index, peak_pos, peaks) ==
  IF max_tree_size = 0 THEN peaks
  ELSE IF current_index >= max_tree_size
       THEN get_peaks_loop(elems, max_tree_size \div 2, current_index - max_tree_size,
                           peak_pos + max_tree_size,
                           Append(peaks, At(elems, peak_pos + max_tree_size - 1)))
       ELSE get_peaks_loop(elems, max_tree_size \div 2, current_index, peak_pos, peaks)

\* MMR::get_peaks(self). For an empty accumulator the shift
\* u32::MAX >> 0u32.leading_zeros() is a shift by 32: with overflow checks it
\* panics, without them the shift count wraps to 0 and max_tree_size starts at
\* u32::MAX; its first round pushes nothing (0 >= u32::MAX is false) and the
\* loop goes on from u32::MAX >> 1.
get_peaks(elems) ==
  LET mmr_len == Len(elems)
  IN  IF mmr_len = 0
      THEN IF build = "debug" THEN Panic
           ELSE Ok(get_peaks_loop(elems, MaxI32, mmr_len, 0, <<>>))
      ELSE Ok(get_peaks_loop(elems, Pow2(BitLen(mmr_len)) - 1, mmr_len, 0, <<>>))

\* Faulty variant of bagging_the_peaks: the root is the tallest peak alone.
bagging_the_tallest_peak(elems) ==
  LET peaks == get_peaks(elems)
  IN  IF peaks.panicked THEN Panic
      ELSE Ok(hash_or_noop_digests(SubSeq(peaks.val, 1, IF Len(peaks.val) = 0 THEN 0 ELSE 1)))

\* MMR::bagging_the_peaks(self)
bagging_the_peaks(elems) ==
  LET peaks == get_peaks(elems)
  IN  IF peaks.panicked THEN Panic ELSE Ok(hash_or_noop_digests(peaks.val))

\* ------------------------------------------------------------ MMR::get_proof

\* Faulty variant of add_right_elm: the right sibling is recorded as a left one.
add_right_elm_as_left(curr_index, height, elems, proof_elms) ==
  LET next_elm_index == curr_index + (Pow2(height + 1) - 1)
  IN  IF Len(elems) = 0 THEN <<TRUE, proof_elms, curr_index, FALSE>>
      ELSE IF next_elm_index < Len(elems) - 1
           THEN <<FALSE, Append(proof_elms, <<At(elems, next_elm_index), TRUE>>),
                  next_elm_index + 1, TRUE>>
           ELSE <<FALSE, proof_elms, curr_index, FALSE>>

\* MMR::add_right_elm: <<panicked, proof_elms, curr_index, intree>> after it.
\* mmr.elements.len() - 1 on an empty vector panics with overflow checks and
\* wraps to usize::MAX without them, where the read elements[next] panics.
add_right_elm(curr_index, height, elems, proof_elms) ==
  LET next_elm_index == curr_index + (Pow2(height + 1) - 1)
  IN  IF Len(elems) = 0 THEN <<TRUE, proof_elms, curr_index, FALSE>>
      ELSE IF next_elm_index < Len(elems) - 1
           THEN <<FALSE, Append(proof_elms, <<At(elems, next_elm_index), FALSE>>),
                  next_elm_index + 1, TRUE>>
           ELSE <<FALSE, proof_elms, curr_index, FALSE>>

RECURSIVE subtree_proof_loop(_, _, _, _)
subtree_proof_loop(elems, curr_index, height, proof_elms) ==
  LET step == Pow2(height + 1) - 1
      prev_elm_index == curr_index - step
      right == add_right_elm(curr_index, height, elems, proof_elms)
      go_right == IF right[1] THEN Panic
                  ELSE IF right[4]
                       THEN subtree_proof_loop(elems, right[3], height + 1, right[2])
                       ELSE Ok(right[2])
  IN  IF curr_index >= step
      THEN IF get_heights_bitmap_for_mmr_size(prev_elm_index)[2] = height
           THEN IF prev_elm_index >= Len(elems) THEN Panic
                ELSE subtree_proof_loop(elems, curr_index + 1, height + 1,
                       Append(proof_elms, <<At(elems, prev_elm_index), TRUE>>))
           ELSE go_right
      ELSE go_right

\* Faulty variant of get_subtree_proof_elm: the walk stops after the first level.
get_subtree_proof_elm_one_level(elems, mmr_index) ==
  LET path == subtree_proof_loop(elems, mmr_index, 0, <<>>)
  IN  IF path.panicked \/ Len(path.val) <= 1 THEN path
      ELSE Ok(SubSeq(path.val, 1, 1))

\* MMR::get_subtree_proof_elm(mmr, mmr_index)
get_subtree_proof_elm(elems, mmr_index) == subtree_proof_loop(elems, mmr_index, 0, <<>>)

\* MMR::get_proof(self, mmr_index) -> MMR_proof
get_proof(elems, mmr_index) ==
  LET path == get_subtree_proof_elm(elems, mmr_index)
      peaks == get_peaks(elems)
  IN  IF path.panicked \/ peaks.panicked THEN Panic
      ELSE Ok([mmr_size |-> Len(elems), merkle_proof |-> path.val, peaks |-> peaks.val])

\* --------------------------------------------------------- MMR_proof::verify

RECURSIVE fold_path(_, _, _)
fold_path(merkle_proof, i, next_hash) ==
  IF i > Len(merkle_proof) THEN next_hash
  ELSE LET sibling == merkle_proof[i][1]
           sibling_on_left == merkle_proof[i][2]
       IN  fold_path(merkle_proof, i + 1,
                     IF sibling_on_left THEN two_to_one(sibling, next_hash)
                     ELSE two_to_one(next_hash, sibling))

\* Vec::contains
contains(s, x) == \E i \in 1..Len(s) : s[i] = x

\* Faulty variant of verify: the subtree root is looked up among the peaks of the live
\* accumulator instead of the peaks the proof carries.
verify_against_live(proof, leaf, root) ==
  LET next_hash == fold_path(proof.merkle_proof, 1, hash_or_noop_leaf(leaf))
      calc_root == hash_or_noop_digests(proof.peaks)
  IN  IF ~contains(get_peaks(elements).val, next_hash) THEN Panic
      ELSE Ok(calc_root = root)

\* Faulty variant of verify: the folded digest is not looked up among the peaks.
verify_root_only(proof, leaf, root) ==
  LET calc_root == hash_or_noop_digests(proof.peaks)
  IN  Ok(calc_root = root)

\* MMR_proof::verify(self, leaf, root): assert!(peaks.contains(..)) panics.
verify(proof, leaf, root) ==
  LET next_hash == fold_path(proof.merkle_proof, 1, hash_or_noop_leaf(leaf))
      calc_root == hash_or_noop_digests(proof.peaks)
  IN  IF ~contains(proof.peaks, next_hash) THEN Panic
      ELSE Ok(calc_root = root)

\* ---------------------------------------------------------- index mappings

\* 2i32.pow(height) - 1 as get_mmr_index computes it: <<overflowed, value>>.
\* 2^31 does not fit an i32: with overflow checks pow panics; without them it
\* wraps to i32::MIN and the subtraction wraps on to i32::MAX.
pow_i32_minus_1(height) ==
  IF height < 31 THEN <<FALSE, Pow2(height) - 1>>
  ELSE IF build = "debug" \/ height > 31 THEN <<TRUE, 0>>
  ELSE <<FALSE, MaxI32>>

RECURSIVE get_mmr_index_loop(_, _, _)
get_mmr_index_loop(index, height, res) ==
  IF index = 0 THEN Ok(res)
  ELSE IF index % 2 = 1
       THEN LET term == pow_i32_minus_1(height)
            IN  IF term[1] \/ res > MaxI32 - term[2]
                THEN Panic   \* overflow of the i32 sum, or unwrap of a negative
                ELSE get_mmr_index_loop(index \div 2, height + 1, res + term[2])
       ELSE get_mmr_index_loop(index \div 2, height + 1, res)

\* get_mmr_index(leaf_normal_index), the flat index or a panic.
get_mmr_index(leaf_normal_index) == get_mmr_index_loop(leaf_normal_index, 1, 0)

\* MMR::get_proof_normal_index(self, normal_index)
get_proof_normal_index(elems, normal_index) ==
  LET mmr_index == get_mmr_index(normal_index)
  IN  IF mmr_index.panicked THEN Panic ELSE get_proof(elems, mmr_index.val)

\* usize::ilog2
RECURSIVE ilog2(_)
ilog2(n) == IF n <= 1 THEN 0 ELSE 1 + ilog2(n \div 2)

\* get_nr_elms(nr_leaves) = 2^h * 2 - 1 in i32. ilog2 of 0 panics in every
\* build. 2^30 * 2 overflows an i32: a panic with overflow checks; without
\* them 2^30 * 2 - 1 wraps round to i32::MAX and 2^31 * 2 - 1 to -1, which
\* to_usize().unwrap() refuses.
get_nr_elms(nr_leaves) ==
  IF nr_leaves = 0 THEN Panic
  ELSE LET h == ilog2(nr_leaves)
       IN  IF h < 30 THEN Ok(Pow2(h) * 2 - 1)
           ELSE IF build = "debug" \/ h > 30 THEN Panic
           ELSE Ok(MaxI32)

\* A usize that wrapped below zero (no overflow checks) is written as the
\* negative number it is congruent to modulo 2^64: it compares above every
\* count of the model.
usize_ge(a, b) == a < 0 \/ (b >= 0 /\ a >= b)

\* get_standard_index(leaf_index, nr_leaves). The subtractions
\* nr_leaves - 2 and leaf_index - (nr_leaves - 1) are on usize: below zero they
\* panic with overflow checks and wrap without them.
RECURSIVE get_standard_index(_, _)
get_standard_index(leaf_index, nr_leaves) ==
  IF nr_leaves = 4 \/ nr_leaves = 2
  THEN IF leaf_index = 0 \/ leaf_index = 1 THEN Ok(leaf_index) ELSE Ok(leaf_index - 1)
  ELSE LET nr_elms == get_nr_elms(nr_leaves)
       IN  IF nr_elms.panicked THEN Panic
           ELSE IF usize_ge(leaf_index, nr_elms.val \div 2)
                THEN IF nr_leaves < 2
                     THEN IF build = "debug" THEN Panic
                          ELSE get_standard_index(leaf_index - (nr_leaves - 1),
                                                  nr_leaves \div 2)
                     ELSE IF leaf_index >= 0 /\ leaf_index < nr_leaves - 1
                             /\ build = "debug"
                          THEN Panic
                          ELSE LET rec == get_standard_index(leaf_index - (nr_leaves - 1),
                                                             nr_leaves \div 2)
                               IN  IF rec.panicked THEN Panic
                                   ELSE Ok(1 + ((nr_leaves - 2) \div 2) + rec.val)
                ELSE get_standard_index(leaf_index, nr_leaves \div 2)

\* ------------------------------------------------------------------ naive_MMR

\* Vec::pop, which leaves an empty vector as it is.
pop(s) == IF Len(s) = 0 THEN s ELSE SubSeq(s, 1, Len(s) - 1)

\* naive_MMR::new(leaf)
naive_new(leaf) ==
  [elements |-> <<hash_or_noop_leaf(leaf)>>, heights |-> <<0>>, nr_leaves |-> 1,
   max_height |-> 0, peaks |-> <<>>]

\* The first part of naive_MMR::add_leaf: the leaf, and the node above it when
\* the element before it is a leaf too.
naive_add_leaf_first(self, leaf) ==
  LET leaf_hash == hash_or_noop_leaf(leaf)
      pushed == [self EXCEPT !.elements = Append(@, leaf_hash),
                             !.heights = Append(@, 0),
                             !.nr_leaves = @ + 1,
                             !.peaks = Append(@, leaf_hash)]
  IN  IF At(pushed.heights, Len(pushed.heights) - 2) = 0
      THEN LET node_1 == two_to_one(At(pushed.elements, Len(pushed.elements) - 2), leaf_hash)
           IN  [pushed EXCEPT !.elements = Append(@, node_1),
                              !.heights = Append(@, 1),
                              !.max_height = IF @ = 0 THEN 1 ELSE @,
                              !.peaks = Append(pop(pop(@)), node_1)]
      ELSE pushed

\* Faulty variant of naive_add_leaf_loop: the two peaks are merged the wrong way round.
RECURSIVE naive_add_leaf_loop_swapped(_, _, _)
naive_add_leaf_loop_swapped(self, i, end) ==
  IF i >= end THEN self
  ELSE LET nr_leaves == Pow2(i)
       IN  IF self.nr_leaves % nr_leaves = 0
           THEN LET prev_peak == At(self.elements, Len(self.elements) - 1 - (nr_leaves - 1))
                    next_node == two_to_one(At(self.elements, Len(self.elements) - 1), prev_peak)
                IN  naive_add_leaf_loop_swapped(
                      [self EXCEPT !.elements = Append(@, next_node),
                                   !.heights = Append(@, i),
                                   !.max_height = IF i > @ THEN i ELSE @,
                                   !.peaks = Append(pop(pop(@)), next_node)],
                      i + 1, end)
           ELSE self

\* for i in 2..(self.max_height + 2): the range is taken once, before the loop.
RECURSIVE naive_add_leaf_loop(_, _, _)
naive_add_leaf_loop(self, i, end) ==
  IF i >= end THEN self
  ELSE LET nr_leaves == Pow2(i)
       IN  IF self.nr_leaves % nr_leaves = 0
           THEN LET prev_peak == At(self.elements, Len(self.elements) - 1 - (nr_leaves - 1))
                    next_node == two_to_one(prev_peak, At(self.elements, Len(self.elements) - 1))
                IN  naive_add_leaf_loop(
                      [self EXCEPT !.elements = Append(@, next_node),
                                   !.heights = Append(@, i),
                                   !.max_height = IF i > @ THEN i ELSE @,
                                   !.peaks = Append(pop(pop(@)), next_node)],
                      i + 1, end)
           ELSE self

\* naive_MMR::add_leaf(&mut self, leaf): the object after the call.
naive_add_leaf(self, leaf) ==
  LET first == naive_add_leaf_first(self, leaf)
  IN  naive_add_leaf_loop(first, 2, first.max_height + 2)

\* naive_MMR::bagging_the_peaks(self): the root of the MMR_bagged it returns.
naive_bagging_the_peaks(self) == hash_or_noop_digests(self.peaks)

\* -------------------------------------------------------- naive_MMR proofs

\* The elements s[from..to) of a vector, a Rust slice.
Slice(s, from, to) == SubSeq(s, from + 1, to)

\* for i in leaf_index..mmr.elements.len(): the highest height met to the
\* right of the leaf and its place, as <<highest_peak_subtree, index_highest_peak>>.
RECURSIVE info_subtree_loop(_, _, _, _)
info_subtree_loop(mmr, i, highest_peak_subtree, index_highest_peak) ==
  IF i >= Len(mmr.elements) THEN <<highest_peak_subtree, index_highest_peak>>
  ELSE IF At(mmr.heights, i) > highest_peak_subtree
       THEN IF At(mmr.heights, i) = mmr.max_height
            THEN <<At(mmr.heights, i), i>>
            ELSE info_subtree_loop(mmr, i + 1, At(mmr.heights, i), i)
       ELSE info_subtree_loop(mmr, i + 1, highest_peak_subtree, index_highest_peak)

\* get_info_subtree_leaf_index(mmr, leaf_index) ->
\* (highest_peak_subtree, index_highest_peak, start). The subtraction
\* index_highest_peak - len_subtree is on usize: below zero it panics with
\* overflow checks and wraps without them.
get_info_subtree_leaf_index(mmr, leaf_index) ==
  LET found == info_subtree_loop(mmr, leaf_index, 0, 0)
      len_subtree == Pow2(found[1]) * 2 - 2
  IN  IF len_subtree > found[2] /\ build = "debug" THEN Panic
      ELSE Ok(<<found[1], found[2], found[2] - len_subtree>>)

\* for h in 1..max_height of get_merkle_proof
RECURSIVE merkle_proof_loop(_, _, _, _, _, _)
merkle_proof_loop(subtree, subtree_heights, h, max_height, updated_index, proof_hashes) ==
  IF h >= max_height THEN Ok(proof_hashes)
  ELSE LET diff == Pow2(h + 1) - 1
       IN  IF updated_index + diff < Len(subtree)
              /\ updated_index + diff < Len(subtree_heights)
              /\ At(subtree_heights, updated_index + diff) = h
           THEN merkle_proof_loop(subtree, subtree_heights, h + 1, max_height,
                                  updated_index + diff + 1,
                                  Append(proof_hashes, At(subtree, updated_index + diff)))
           ELSE IF updated_index < diff \/ updated_index - diff >= Len(subtree)
                THEN Panic   \* usize underflow, or a read outside the subtree
                ELSE merkle_proof_loop(subtree, subtree_heights, h + 1, max_height,
                                       updated_index + 1,
                                       Append(proof_hashes, At(subtree, updated_index - diff)))

\* get_merkle_proof(subtree, subtree_heights, leaf_index, max_height).
\* A leaf_index that wrapped below zero is outside every vector.
get_merkle_proof(subtree, subtree_heights, leaf_index, max_height) ==
  IF leaf_index < 0 \/ leaf_index >= Len(subtree_heights) THEN Panic
  ELSE IF At(subtree_heights, leaf_index) # 0 THEN Panic   \* assert!
  ELSE LET leaf_right == /\ leaf_index + 1 < Len(subtree_heights)
                         /\ At(subtree_heights, leaf_index + 1) = 0
       IN  IF leaf_right
           THEN IF leaf_index + 1 >= Len(subtree) THEN Panic
                ELSE merkle_proof_loop(subtree, subtree_heights, 1, max_height,
                                       leaf_index + 2, <<At(subtree, leaf_index + 1)>>)
           ELSE IF leaf_index = 0 \/ leaf_index - 1 >= Len(subtree) THEN Panic
                ELSE merkle_proof_loop(subtree, subtree_heights, 1, max_height,
                                       leaf_index + 1, <<At(subtree, leaf_index - 1)>>)

\* naive_MMR::get_proof(self, index) -> (merkle_proof, peaks, relative_index)
naive_get_proof(self, index) ==
  LET info == get_info_subtree_leaf_index(self, index)
  IN  IF info.panicked THEN Panic
      ELSE LET highest_peak_subtree == info.val[1]
               index_highest_peak == info.val[2]
               start == info.val[3]
           IN  IF start < 0 \/ start > index_highest_peak
                    \/ index_highest_peak > Len(self.elements)
               THEN Panic   \* slice index out of order or out of range
               ELSE IF index < start /\ build = "debug" THEN Panic
               ELSE LET subtree == Slice(self.elements, start, index_highest_peak)
                        subtree_heights == Slice(self.heights, start, index_highest_peak)
                        relative_index == index - start
                        merkle_proof == get_merkle_proof(subtree, subtree_heights,
                                                         relative_index, highest_peak_subtree)
                    IN  IF merkle_proof.panicked THEN Panic
                        ELSE Ok([merkle_proof |-> merkle_proof.val, peaks |-> self.peaks,
                                 relative_index |-> relative_index])

\* for i in 1..merkle_proof_subtree.len() of verify_proof
RECURSIVE verify_proof_loop(_, _, _, _)
verify_proof_loop(merkle_proof_subtree, i, updated_index, next_hash) ==
  IF i >= Len(merkle_proof_subtree) THEN next_hash
  ELSE verify_proof_loop(merkle_proof_subtree, i + 1, updated_index \div 2,
         IF updated_index % 2 = 0
         THEN two_to_one(next_hash, At(merkle_proof_subtree, i))
         ELSE two_to_one(At(merkle_proof_subtree, i), next_hash))

\* naive_MMR::verify_proof(relative_leaf_index, leaf, merkle_proof_subtree,
\* peaks, root_check). An empty path fails at the read merkle_proof_subtree[0],
\* if get_standard_index has not failed before it.
verify_proof(relative_leaf_index, leaf, merkle_proof_subtree, peaks, root_check) ==
  LET nr_leaves_subtree == Pow2(Len(merkle_proof_subtree))
      standardized_index == get_standard_index(relative_leaf_index, nr_leaves_subtree)
      leaf_hash == hash_or_noop_leaf(leaf)
  IN  IF standardized_index.panicked \/ Len(merkle_proof_subtree) = 0 THEN Panic
      ELSE LET first == IF standardized_index.val % 2 = 0
                        THEN two_to_one(leaf_hash, At(merkle_proof_subtree, 0))
                        ELSE two_to_one(At(merkle_proof_subtree, 0), leaf_hash)
               next_hash == verify_proof_loop(merkle_proof_subtree, 1,
                                              standardized_index.val \div 2, first)
           IN  IF ~contains(peaks, next_hash) THEN Panic   \* assert!
               ELSE Ok(hash_or_noop_digests(peaks) = root_check)

\* ---------------------------------------------------------- IncrementalTree

\* The zero digests of IncrementalTree::new: zeroes[0] = zero_value and
\* zeroes[l + 1] = two_to_one(zeroes[l], zeroes[l]), depth + 1 of them.
RECURSIVE zeroes_scan(_, _)
zeroes_scan(zero_value, depth) ==
  IF depth = 0 THEN <<zero_value>>
  ELSE LET below == zeroes_scan(zero_value, depth - 1)
       IN  Append(below, two_to_one(below[Len(below)], below[Len(below)]))

\* IncrementalTree::new(zero_value, depth), for depth <= 32
IncrementalTree_new(zero_value, depth) ==
  LET zeroes == zeroes_scan(zero_value, depth)
  IN  [root |-> zeroes[Len(zeroes)], zeroes |-> zeroes,
       nodes |-> [level \in 1..depth |-> <<>>], depth |-> depth, position |-> 0]

\* Faulty variant of insert_loop: the empty right sibling is zeroes[0] at every level.
RECURSIVE insert_loop_flat_zero(_, _, _, _, _, _)
insert_loop_flat_zero(zeroes, depth, nodes, level, index, node) ==
  IF level >= depth THEN <<FALSE, nodes, node>>
  ELSE LET row == At(nodes, level)
           stored == IF Len(row) > index
                     THEN [row EXCEPT ![index + 1] = node]
                     ELSE Append(row, node)
           after == [nodes EXCEPT ![level + 1] = stored]
       IN  IF index % 2 = 1
           THEN IF index - 1 >= Len(stored) THEN <<TRUE, after, node>>
                ELSE insert_loop_flat_zero(zeroes, depth, after, level + 1, index \div 2,
                                           two_to_one(At(stored, index - 1), node))
           ELSE insert_loop_flat_zero(zeroes, depth, after, level + 1, index \div 2,
                                      two_to_one(node, At(zeroes, 0)))

\* for level in 0..*depth of insert, each round the closure append_leaf:
\* <<panicked, nodes, node>> after the loop. The read nodes[level][index - 1]
\* outside the vector panics.
RECURSIVE insert_loop(_, _, _, _, _, _)
insert_loop(zeroes, depth, nodes, level, index, node) ==
  IF level >= depth THEN <<FALSE, nodes, node>>
  ELSE LET row == At(nodes, level)
           stored == IF Len(row) > index
                     THEN [row EXCEPT ![index + 1] = node]
                     ELSE Append(row, node)
           after == [nodes EXCEPT ![level + 1] = stored]
       IN  IF index % 2 = 1
           THEN IF index - 1 >= Len(stored) THEN <<TRUE, after, node>>
                ELSE insert_loop(zeroes, depth, after, level + 1, index \div 2,
                                 two_to_one(At(stored, index - 1), node))
           ELSE insert_loop(zeroes, depth, after, level + 1, index \div 2,
                            two_to_one(node, At(zeroes, level)))

\* A panic that unwinds out of a &mut self method: the object stays as the
\* call left it at the panic.
Abort(left) == [panicked |-> TRUE, val |-> left]

\* insert with the "Tree is full" test moved behind the append loop
insert_checking_late(self, leaf) ==
  IF leaf = At(self.zeroes, 0) THEN Abort(self)
  ELSE IF self.depth = 0 THEN Abort(self)
  ELSE LET done == insert_loop(self.zeroes, self.depth, self.nodes, 0, self.position, leaf)
       IN  IF done[1] \/ Len(At(self.nodes, 0)) >= Pow2(self.depth)
           THEN Abort([self EXCEPT !.nodes = done[2]])
           ELSE Ok([self EXCEPT !.nodes = done[2], !.position = @ + 1, !.root = done[3]])

\* IncrementalTree::insert(&mut self, leaf): the tree after the call, whether
\* it returned or panicked. The panics "leaf cannot be zero" and "Tree is
\* full" (and nodes.get(0).unwrap() on a tree of depth 0) come before the
\* first write; a panic of the read nodes[level][index - 1] comes after the
\* writes of the levels up to that one.
insert(self, leaf) ==
  IF leaf = At(self.zeroes, 0) THEN Abort(self)
  ELSE IF self.depth = 0 THEN Abort(self)
  ELSE IF Len(At(self.nodes, 0)) >= Pow2(self.depth) THEN Abort(self)
  ELSE LET done == insert_loop(self.zeroes, self.depth, self.nodes, 0, self.position, leaf)
       IN  IF done[1] THEN Abort([self EXCEPT !.nodes = done[2]])
           ELSE Ok([self EXCEPT !.nodes = done[2], !.position = @ + 1, !.root = done[3]])

\* nodes[0].iter().position(|&el| el == leaf): the first place of leaf, or -1.
RECURSIVE position_of(_, _, _)
position_of(row, leaf, i) ==
  IF i >= Len(row) THEN -1
  ELSE IF At(row, i) = leaf THEN i ELSE position_of(row, leaf, i + 1)

\* for level in 0..*depth of witness, each round the closure sibling_path:
\* <<panicked, siblings, pos>> after the loop.
RECURSIVE witness_loop(_, _, _, _, _)
witness_loop(self, level, index, siblings, pos) ==
  IF level >= self.depth THEN <<FALSE, siblings, pos>>
  ELSE IF index % 2 = 1
       THEN IF index - 1 >= Len(At(self.nodes, level)) THEN <<TRUE, siblings, pos>>
            ELSE witness_loop(self, level + 1, index \div 2,
                              [siblings EXCEPT ![level + 1] = At(At(self.nodes, level), index - 1)],
                              [pos EXCEPT ![level + 1] = TRUE])
       ELSE witness_loop(self, level + 1, index \div 2,
                         [siblings EXCEPT ![level + 1] = At(self.zeroes, level)],
                         pos)

\* IncrementalTree::witness(&mut self, leaf) -> (siblings, pos), or the panic
\* "no such leaf" (on a tree of depth 0 the read nodes[0] panics).
witness(self, leaf) ==
  IF self.depth = 0 THEN Panic
  ELSE LET index == position_of(At(self.nodes, 0), leaf, 0)
       IN  IF index < 0 THEN Panic
           ELSE LET done == witness_loop(self, 0, index,
                                         [l \in 1..self.depth |-> At(self.zeroes, 0)],
                                         [l \in 1..self.depth |-> FALSE])
                IN  IF done[1] THEN Panic
                    ELSE Ok([siblings |-> done[2], pos |-> done[3]])

\* for (sibling, p) in siblings.iter().zip(pos.iter()) of check_proof
RECURSIVE check_proof_loop(_, _, _, _)
check_proof_loop(siblings, pos, i, node) ==
  IF i > Len(siblings) \/ i > Len(pos) THEN node
  ELSE check_proof_loop(siblings, pos, i + 1,
                        IF pos[i] THEN two_to_one(siblings[i], node)
                        ELSE two_to_one(node, siblings[i]))

\* IncrementalTree::check_proof(&self, leaf, siblings, pos)
check_proof(self, leaf, siblings, pos) ==
  check_proof_loop(siblings, pos, 1, leaf) = self.root

\* ------------------------------------------------------ the proof circuit

\* HashOutTarget::elements: the four field elements of a digest. A digest that
\* hash_or_noop copied has the elements it was given; the four outputs of a
\* Poseidon permutation are elements of their own, equal to no element of
\* another digest.
HashOut_elements(d) ==
  IF d[1] = "elts" THEN [i \in 1..4 |-> <<"f", d[2][i]>>]
  ELSE [i \in 1..4 |-> <<"h", d, i>>]

\* common::equal(builder, first, second): the value of the BoolTarget
equal(first, second) ==
  LET elm0 == HashOut_elements(first)[1] = HashOut_elements(second)[1]
      elm1 == HashOut_elements(first)[2] = HashOut_elements(second)[2]
      elm2 == HashOut_elements(first)[3] = HashOut_elements(second)[3]
      elm3 == HashOut_elements(first)[4] = HashOut_elements(second)[4]
      elm0_or_elm1 == elm0 \/ elm1
      elm2_or_elm3 == elm2 \/ elm3
  IN  elm0_or_elm1 \/ elm2_or_elm3

\* for pair in ins.chunks(2) of or_list
chunks_or(ins) ==
  [c \in 1..((Len(ins) + 1) \div 2) |->
     IF 2 * c <= Len(ins) THEN ins[2 * c - 1] \/ ins[2 * c] ELSE ins[2 * c - 1]]

\* common::or_list(builder, ins), for a list that is not empty
RECURSIVE or_list(_)
or_list(ins) ==
  IF Len(ins) = 1 THEN ins[1]
  ELSE IF Len(ins) = 2 THEN ins[1] \/ ins[2]
  ELSE or_list(chunks_or(ins))

\* common::pick_hash(builder, option1, option2, pick_left):
\* option1 * pick_left + option2 * (1 - pick_left), for a pick_left of 0 or 1
pick_hash(option1, option2, pick_left) ==
  IF pick_left THEN option1 ELSE option2

\* while proof_elm_index < nr_merkle_proof_elms of verify_mmr_proof_circuit.
\* hash_or_noop of the eight elements of two digests is hash_no_pad_digests of
\* the two, the digest that two_to_one computes.
RECURSIVE circuit_path_loop(_, _, _)
circuit_path_loop(proof_targets, proof_elm_index, next_hash) ==
  IF proof_elm_index >= Len(proof_targets) THEN next_hash
  ELSE LET merkle_proof_elm == At(proof_targets, proof_elm_index)[1]
           elm_on_left == At(proof_targets, proof_elm_index)[2]
           option1 == two_to_one(merkle_proof_elm, next_hash)
           option2 == two_to_one(next_hash, merkle_proof_elm)
       IN  circuit_path_loop(proof_targets, proof_elm_index + 1,
                             pick_hash(option1, option2, elm_on_left))

\* The circuit of verify_mmr_proof_circuit(Len(proof_targets), Len(peak_targets))
\* with its targets set to (leaf_to_prove, proof_targets, peak_targets) and its
\* public inputs to root: whether the constraints hold, so that prove and
\* verify succeed. Building the circuit for no peaks panics (the assert of
\* or_list).
verify_mmr_proof_circuit(leaf_to_prove, proof_targets, peak_targets, root) ==
  IF Len(peak_targets) = 0 THEN Panic
  ELSE LET hashed_leaf == hash_or_noop_leaf(leaf_to_prove)
           next_hash == circuit_path_loop(proof_targets, 0, hashed_leaf)
           equals == [p \in 1..Len(peak_targets) |-> equal(peak_targets[p], next_hash)]
           hash_in_peaks == or_list(equals)
           public_inputs == IF Len(peak_targets) > 1 THEN hash_no_pad_digests(peak_targets)
                            ELSE peak_targets[1]
       IN  Ok(hash_in_peaks /\ public_inputs = root)

\* --------------------------------------------------------------- the state

NoRet == [op |-> "none", arg |-> 0, panicked |-> FALSE, val |-> <<>>]
Ret(op, arg, r) == [op |-> op, arg |-> arg, panicked |-> r.panicked, val |-> r.val]

NoProof ==
  [built |-> FALSE, normal_index |-> 0, mmr_size |-> 0, merkle_proof |-> <<>>,
   peaks |-> <<>>, root |-> hash_or_noop_digests(<<>>)]

\* No add_leaf is under way.
NotAdding ==
  [active |-> FALSE, leaf |-> 0, peaks |-> 0, height |-> 0, current_pos |-> 0,
   next_hash |-> hash_or_noop_leaf(0)]

\* What a caller presents for a leaf value it altered.
Altered(leaf) == leaf + 1

\* The value the caller inserts as its (n+1)-th leaf. The tests draw leaves at
\* random from the 64-bit field, so that they differ from one another.
NextLeaf(n) == n + 1

InitMMR ==
  /\ build \in {"debug", "release"}
  /\ elements = <<>>           \* MMR::new()
  /\ leaves = <<>>
  /\ pr = NoProof
  /\ ret = NoRet
  /\ adding = NotAdding

\* mmr.add_leaf(leaf)
MMR_add_leaf(limit) ==
  /\ Len(leaves) < limit
  /\ elements' = add_leaf(elements, NextLeaf(Len(leaves)))
  /\ leaves' = Append(leaves, NextLeaf(Len(leaves)))
  /\ ret' = Ret("add_leaf", NextLeaf(Len(leaves)), Ok(<<>>))
  /\ UNCHANGED <<build, pr, naive, ix, tree, adding>>

\* mmr.clone().get_peaks()
MMR_get_peaks ==
  /\ \E r \in {get_peaks(elements)} : ret' = Ret("get_peaks", 0, r)
  /\ UNCHANGED <<build, elements, leaves, pr, naive, ix, tree, adding>>

\* mmr.clone().bagging_the_peaks()
MMR_bagging_the_peaks ==
  /\ \E r \in {bagging_the_peaks(elements)} : ret' = Ret("bagging_the_peaks", 0, r)
  /\ UNCHANGED <<build, elements, leaves, pr, naive, ix, tree, adding>>

\* get_heights_bitmap_for_mmr_size(size), for a size up to the accumulator's
MMR_heights_bitmap ==
  /\ \E size \in 0..Len(elements) :
       ret' = Ret("heights_bitmap", size, Ok(get_heights_bitmap_for_mmr_size(size)))
  /\ UNCHANGED <<build, elements, leaves, pr, naive, ix, tree, adding>>

\* let pr = mmr.clone().get_proof(get_mmr_index(k));
\* let root = mmr.clone().bagging_the_peaks();
MMR_get_proof ==
  \E k \in 0..(Len(leaves) - 1) :
    \E p \in {get_proof_normal_index(elements, k)} :
      \E root \in {bagging_the_peaks(elements)} :
        /\ ret' = Ret("get_proof", k, IF p.panicked \/ root.panicked THEN Panic ELSE Ok(<<>>))
        /\ pr' = IF p.panicked \/ root.panicked THEN pr
                 ELSE [built |-> TRUE, normal_index |-> k, mmr_size |-> p.val.mmr_size,
                       merkle_proof |-> p.val.merkle_proof, peaks |-> p.val.peaks,
                       root |-> root.val]
        /\ UNCHANGED <<build, elements, leaves, naive, ix, tree, adding>>

\* pr.clone().verify(leaf, root), for the leaf the proof was built for or for
\* an altered one.
MMR_proof_verify ==
  /\ pr.built
  /\ \E leaf \in {At(leaves, pr.normal_index), Altered(At(leaves, pr.normal_index))} :
       \E r \in {verify(pr, leaf, pr.root)} : ret' = Ret("verify", leaf, r)
  /\ UNCHANGED <<build, elements, leaves, pr, naive, ix, tree, adding>>

\* mmr.clone().get_proof(i) for a flat index i past the last element.
MMR_get_proof_beyond ==
  /\ \E i \in Len(elements)..(Len(elements) + MaxBeyond) :
       \E p \in {get_proof(elements, i)} : ret' = Ret("get_proof_beyond", i, p)
  /\ UNCHANGED <<build, elements, leaves, pr, naive, ix, tree, adding>>

\* mmr.clone().get_proof_normal_index(k) for a normal index k past the last leaf.
MMR_get_proof_normal_index_beyond ==
  /\ \E k \in Len(leaves)..(Len(leaves) + MaxBeyond) :
       \E p \in {get_proof_normal_index(elements, k)} :
         ret' = Ret("get_proof_normal_index_beyond", k, p)
  /\ UNCHANGED <<build, elements, leaves, pr, naive, ix, tree, adding>>

\* ------------------------------------------------- both accumulators

\* let mut mmr = naive_MMR::new(leaf0)
InitNaive == naive = naive_new(NextLeaf(0))

\* mmr.add_leaf(leaf) on the naive_MMR
naive_MMR_add_leaf ==
  /\ naive.nr_leaves < MaxLeaves
  /\ naive' = naive_add_leaf(naive, NextLeaf(naive.nr_leaves))
  /\ ret' = Ret("naive_add_leaf", NextLeaf(naive.nr_leaves), Ok(<<>>))
  /\ UNCHANGED <<build, elements, leaves, pr, ix, tree, adding>>

\* mmr.bagging_the_peaks().root on the naive_MMR
naive_MMR_bagging_the_peaks ==
  /\ ret' = Ret("naive_bagging_the_peaks", 0, Ok(naive_bagging_the_peaks(naive)))
  /\ UNCHANGED <<build, elements, leaves, pr, naive, ix, tree, adding>>

\* The value that was inserted as the leaf at flat index i: its digest holds it.
LeafValueAt(elems, i) == At(elems, i)[2][1]

\* let pr = mmr.clone().get_proof(i), for the flat index i of a leaf
naive_MMR_get_proof ==
  /\ \E i \in {j \in 0..(Len(naive.elements) - 1) : At(naive.heights, j) = 0} :
       \E p \in {naive_get_proof(naive, i)} : ret' = Ret("naive_get_proof", i, p)
  /\ UNCHANGED <<build, elements, leaves, pr, naive, ix, tree, adding>>

\* naive_MMR::verify_proof(pr.2, leaf, pr.0, pr.1, mmr.clone().bagging_the_peaks().root)
\* with the proof the last call returned and the leaf it was asked for
naive_MMR_verify_proof ==
  /\ ret.op = "naive_get_proof" /\ ~ret.panicked
  /\ \E r \in {verify_proof(ret.val.relative_index, LeafValueAt(naive.elements, ret.arg),
                             ret.val.merkle_proof, ret.val.peaks,
                             naive_bagging_the_peaks(naive))} :
       ret' = Ret("naive_verify_proof", ret.arg, r)
  /\ UNCHANGED <<build, elements, leaves, pr, naive, ix, tree, adding>>

\* ------------------------------------------------------ index mappings

\* Largest leaf count of a mountain the index mappings are tried on.
MaxMountain == 64

\* The leaf counts of the round trip test of the specification.
TestedLeafCounts == {1, 2, 3, 4, 7, 8, 15, 16, 17, 31, 32, 100}

IxNone == [stage |-> "idle", k |-> 0, m |-> 0, flat |-> Ok(0), std |-> Ok(0)]

\* Leaf counts and normal indices at the width of the i32 that get_mmr_index
\* and get_nr_elms compute in, as <<m, k>> with k < m: the mountain of 2^30
\* leaves, and the indices on both sides of 2^30.
WideInputs ==
  { <<Pow2(30), 0>>, <<Pow2(30), Pow2(30) - 1>>,
    <<MaxI32, Pow2(30)>>, <<MaxI32, Pow2(30) + 1>> }

\* The caller picks a leaf count m and a normal index k below it.
InitIx ==
  \/ \E m \in (1..MaxMountain) \cup TestedLeafCounts : \E k \in 0..(m - 1) :
       ix = [stage |-> "input", k |-> k, m |-> m, flat |-> Ok(0), std |-> Ok(0)]
  \/ \E w \in WideInputs :
       ix = [stage |-> "input", k |-> w[2], m |-> w[1], flat |-> Ok(0), std |-> Ok(0)]

\* let flat = get_mmr_index(k)
Ix_get_mmr_index ==
  /\ ix.stage = "input"
  /\ \E r \in {get_mmr_index(ix.k)} : ix' = [ix EXCEPT !.stage = "flat", !.flat = r]
  /\ UNCHANGED <<build, elements, leaves, pr, ret, naive, tree, adding>>

\* let std = get_standard_index(flat, m)
Ix_get_standard_index ==
  /\ ix.stage = "flat"
  /\ ~ix.flat.panicked
  /\ \E r \in {get_standard_index(ix.flat.val, ix.m)} :
       ix' = [ix EXCEPT !.stage = "std", !.std = r]
  /\ UNCHANGED <<build, elements, leaves, pr, ret, naive, tree, adding>>

\* The caller picks a leaf count m and a flat index i of its own, leaf
\* position or not, up to MaxBeyond past the 2m - 1 elements of the mountain.
InitIxGiven ==
  \E m \in 1..MaxLeaves : \E i \in 0..(2 * m - 1 + MaxBeyond) :
    ix = [stage |-> "given", k |-> 0, m |-> m, flat |-> Ok(i), std |-> Ok(0)]

\* let std = get_standard_index(i, m), for the flat index the caller picked
Ix_get_standard_index_given ==
  /\ ix.stage = "given"
  /\ \E r \in {get_standard_index(ix.flat.val, ix.m)} :
       ix' = [ix EXCEPT !.stage = "mapped", !.std = r]
  /\ UNCHANGED <<build, elements, leaves, pr, ret, naive, tree, adding>>

\* ------------------------------------------------------ IncrementalTree

\* PoseidonHash::hash_or_noop(&vec![from_canonical_u64(0)]), the zero value
zero_hash == hash_or_noop_leaf(0)

\* The i-th leaf the tests insert: hash_or_noop of i + i*i + 2.
TreeLeaf(i) == hash_or_noop_leaf(i + i * i + 2)

\* Where no IncrementalTree is in use.
NoTree == IncrementalTree_new(zero_hash, 0)

\* let mut tree = IncrementalTree::new(zero_hash, depth)
InitTree == \E depth \in 1..MaxDepth : tree = IncrementalTree_new(zero_hash, depth)

\* tree.insert(leaf), of the next leaf or of the zero value
Tree_insert ==
  /\ \E leaf \in {TreeLeaf(tree.position), zero_hash} :
       \E r \in {insert(tree, leaf)} :
         /\ tree' = r.val
         /\ ret' = Ret("insert", leaf, IF r.panicked THEN Panic ELSE Ok(<<>>))
  /\ UNCHANGED <<build, elements, leaves, pr, naive, ix, adding>>

\* let (siblings, pos) = tree.witness(leaf), for a leaf that was inserted or
\* for the next one, which was not
Tree_witness ==
  /\ \E i \in 0..tree.position :
       \E r \in {witness(tree, TreeLeaf(i))} : ret' = Ret("witness", i, r)
  /\ UNCHANGED <<build, elements, leaves, pr, naive, ix, tree, adding>>

\* tree.check_proof(leaf, siblings, pos) with what witness has just returned
Tree_check_proof ==
  /\ ret.op = "witness" /\ ~ret.panicked
  /\ ret' = Ret("check_proof", ret.arg,
                Ok(check_proof(tree, TreeLeaf(ret.arg), ret.val.siblings, ret.val.pos)))
  /\ UNCHANGED <<build, elements, leaves, pr, naive, ix, tree, adding>>

\* test_mmr_verifier: the circuit for the proof pr, given the leaf the proof was
\* built for or an altered one, the path and the peaks of pr, and its root.
Circuit_verify ==
  /\ pr.built
  /\ \E leaf \in {At(leaves, pr.normal_index), Altered(At(leaves, pr.normal_index))} :
       \E r \in {verify_mmr_proof_circuit(leaf, pr.merkle_proof, pr.peaks, pr.root)} :
         ret' = Ret("circuit", leaf, r)
  /\ UNCHANGED <<build, elements, leaves, pr, naive, ix, tree, adding>>

\* equal(&mut builder, first, second) on two digests of the accumulator
Circuit_equal ==
  /\ \E i \in 1..Len(elements) : \E j \in 1..Len(elements) :
       ret' = Ret("equal", <<elements[i], elements[j]>>, Ok(equal(elements[i], elements[j])))
  /\ UNCHANGED <<build, elements, leaves, pr, naive, ix, tree, adding>>

\* mmr.add_leaf(leaf) up to its first push: the early return on an empty
\* accumulator, or the push of the leaf hash that precedes the loop.
AddLeaf_enter ==
  /\ ~adding.active
  /\ Len(leaves) < MaxStepLeaves
  /\ LET leaf == NextLeaf(Len(leaves))
         next_hash == hash_or_noop_leaf(leaf)
     IN  /\ elements' = Append(elements, next_hash)
         /\ leaves' = Append(leaves, leaf)
         /\ IF Len(elements) = 0
            THEN /\ adding' = NotAdding
                 /\ ret' = Ret("add_leaf", leaf, Ok(<<>>))
            ELSE /\ adding' = [active |-> TRUE, leaf |-> leaf,
                               peaks |-> get_heights_bitmap_for_mmr_size(Len(elements))[1],
                               height |-> 1, current_pos |-> Len(elements),
                               next_hash |-> next_hash]
                 /\ ret' = Ret("add_leaf_push", leaf, Ok(<<>>))
  /\ UNCHANGED <<build, pr, naive, ix, tree>>

\* One round of while peaks > 0 of add_leaf: the push of a merge node.
AddLeaf_merge ==
  /\ adding.active
  /\ adding.peaks > 0 /\ adding.peaks % 2 = 1
  /\ LET prev_peak_index == adding.current_pos - (Pow2(adding.height) - 1)
         prev_peak == At(elements, prev_peak_index)
         merged == two_to_one(prev_peak, adding.next_hash)
     IN  /\ elements' = Append(elements, merged)
         /\ adding' = [adding EXCEPT !.peaks = @ \div 2, !.height = @ + 1,
                                     !.current_pos = @ + 1, !.next_hash = merged]
  /\ ret' = Ret("add_leaf_push", adding.leaf, Ok(<<>>))
  /\ UNCHANGED <<build, leaves, pr, naive, ix, tree>>

\* The end of the loop of add_leaf (peaks is 0, or the break), and the return.
AddLeaf_return ==
  /\ adding.active
  /\ ~(adding.peaks > 0 /\ adding.peaks % 2 = 1)
  /\ adding' = NotAdding
  /\ ret' = Ret("add_leaf", adding.leaf, Ok(<<>>))
  /\ UNCHANGED <<build, elements, leaves, pr, naive, ix, tree>>

\* A reader of the accumulator as it is at this moment:
\* get_heights_bitmap_for_mmr_size(elements.len())
Reader_heights_bitmap ==
  /\ \E r \in {get_heights_bitmap_for_mmr_size(Len(elements))} :
       ret' = Ret("read_heights_bitmap", Len(elements), Ok(r))
  /\ UNCHANGED <<build, elements, leaves, pr, naive, ix, tree, adding>>

\* pr.verify(leaf, root) of the leaf the proof was built for, against the root
\* that bagging_the_peaks() gives for the accumulator as it is now
MMR_proof_verify_newer ==
  /\ pr.built
  /\ \E root \in {bagging_the_peaks(elements)} :
       /\ ~root.panicked
       /\ \E r \in {verify(pr, At(leaves, pr.normal_index), root.val)} :
            ret' = Ret("verify_newer", Len(leaves), r)
  /\ UNCHANGED <<build, elements, leaves, pr, naive, ix, tree, adding>>

\* ------------------------------------------------------- specifications

\* The bitmap accumulator MMR, its proofs and their verification.
Init == InitMMR /\ InitNaive /\ ix = IxNone /\ tree = NoTree

Next ==
  \/ MMR_add_leaf(MaxLeaves)
  \/ MMR_get_peaks
  \/ MMR_get_proof
  \/ MMR_proof_verify

Spec == Init /\ [][Next]_vars

\* The two accumulators, each fed its own leaves.
NextDual ==
  \/ MMR_add_leaf(MaxLeaves)
  \/ naive_MMR_add_leaf
  \/ MMR_get_peaks
  \/ MMR_bagging_the_peaks
  \/ naive_MMR_bagging_the_peaks

SpecDual == Init /\ [][NextDual]_vars

\* The bitmap accumulator grown further, with its peaks read and no proofs.
NextGrow ==
  \/ MMR_add_leaf(MaxGrowLeaves)
  \/ MMR_get_peaks
  \/ MMR_bagging_the_peaks
  \/ MMR_heights_bitmap

SpecGrow == Init /\ [][NextGrow]_vars

\* The index mappings on their own.
InitIndex == InitMMR /\ InitNaive /\ (InitIx \/ InitIxGiven) /\ tree = NoTree

NextIndex ==
  \/ Ix_get_mmr_index
  \/ Ix_get_standard_index
  \/ Ix_get_standard_index_given

SpecIndex == InitIndex /\ [][NextIndex]_vars

\* Proofs asked for indices that address no leaf.
NextBeyond ==
  \/ MMR_add_leaf(MaxLeaves)
  \/ MMR_get_proof_beyond
  \/ MMR_get_proof_normal_index_beyond

SpecBeyond == Init /\ [][NextBeyond]_vars

\* The naive_MMR, its proofs and their verification.
NextNaive ==
  \/ naive_MMR_add_leaf
  \/ naive_MMR_bagging_the_peaks
  \/ naive_MMR_get_proof
  \/ naive_MMR_verify_proof

SpecNaive == Init /\ [][NextNaive]_vars

\* The IncrementalTree on its own.
InitTreeOnly == InitMMR /\ InitNaive /\ ix = IxNone /\ InitTree

NextTree ==
  \/ Tree_insert
  \/ Tree_witness
  \/ Tree_check_proof

SpecTree == InitTreeOnly /\ [][NextTree]_vars

\* The accumulator, its proofs and the circuit that verifies them.
NextCircuit ==
  \/ MMR_add_leaf(MaxCircuitLeaves)
  \/ MMR_get_proof
  \/ MMR_proof_verify
  \/ Circuit_verify
  \/ Circuit_equal

SpecCircuit == Init /\ [][NextCircuit]_vars

\* add_leaf push by push, with a reader between the pushes.
NextSteps ==
  \/ AddLeaf_enter
  \/ AddLeaf_merge
  \/ AddLeaf_return
  \/ Reader_heights_bitmap

SpecSteps == Init /\ [][NextSteps]_vars

\* Both accumulators, and the bitmap of every size up to the one reached.
NextHeights ==
  \/ MMR_add_leaf(MaxLeaves)
  \/ naive_MMR_add_leaf
  \/ MMR_heights_bitmap

SpecHeights == Init /\ [][NextHeights]_vars

\* Proofs that are kept while the accumulator grows, and verified against its newer roots.
NextStale ==
  \/ MMR_add_leaf(MaxLeaves)
  \/ MMR_get_proof
  \/ MMR_bagging_the_peaks
  \/ MMR_proof_verify_newer

SpecStale == Init /\ [][NextStale]_vars

\* ================================================================= claims

\* The heights of the mountains of an accumulator of n leaves, tallest first:
\* the set bits of n from bit `bit` down.
RECURSIVE MountainHeights(_, _)
MountainHeights(n, bit) ==
  IF bit < 0 THEN <<>>
  ELSE IF (n \div Pow2(bit)) % 2 = 1 THEN <<bit>> \o MountainHeights(n, bit - 1)
       ELSE MountainHeights(n, bit - 1)

HeightsOf(n) == MountainHeights(n, BitLen(n) - 1)

\* The number of elements of the first i mountains of heights hs.
RECURSIVE SizeOfFirst(_, _)
SizeOfFirst(hs, i) ==
  IF i = 0 THEN 0 ELSE SizeOfFirst(hs, i - 1) + (Pow2(hs[i] + 1) - 1)

\* The height of a digest in the accumulator, read off its term.
RECURSIVE DigestHeight(_)
DigestHeight(d) == IF d[1] = "node" THEN 1 + DigestHeight(d[2]) ELSE 0

IsPrefix(s, t) == Len(s) <= Len(t) /\ \A i \in 1..Len(s) : s[i] = t[i]
IsStrictPrefix(s, t) == Len(s) < Len(t) /\ IsPrefix(s, t)

IsPowerOfTwo(m) == m >= 1 /\ Pow2(BitLen(m) - 1) = m

\* The proof the caller holds was built for the accumulator as it is now.
ProofIsFresh == pr.built /\ pr.mmr_size = Len(elements)

\* The last call was verify on the value inserted at the proof's index.
VerifiedOwnLeaf == ret.op = "verify" /\ ret.arg = At(leaves, pr.normal_index)

\* C1: proof completeness of MMR. Whatever the number of leaves n >= 1 and the
\* index k < n, get_proof(get_mmr_index(k)) returns a proof, and verifying it
\* for the k-th leaf against bagging_the_peaks() of the same accumulator
\* returns true.
C1_ProofCompleteness ==
  /\ ret.op = "get_proof" => ~ret.panicked
  /\ (ProofIsFresh /\ VerifiedOwnLeaf) => (~ret.panicked /\ ret.val = TRUE)

C1_Witness ==
  /\ ProofIsFresh /\ VerifiedOwnLeaf
  /\ Len(leaves) = 11 /\ pr.normal_index = 5
  /\ Len(pr.merkle_proof) = 3 /\ Len(pr.peaks) = 3
  /\ ~ret.panicked /\ ret.val = TRUE

\* C2: verify fails closed. When the fold of the path over the hash of the
\* presented leaf is not among the proof's peaks, verify returns false and does
\* not panic.
C2_VerifyFailsClosed ==
  (ret.op = "verify"
     /\ ~contains(pr.peaks, fold_path(pr.merkle_proof, 1, hash_or_noop_leaf(ret.arg))))
  => (~ret.panicked /\ ret.val = FALSE)

\* C3: root stability. A proof built at n1 leaves, and the root taken with it,
\* are left as they are by every later add_leaf, and the proof still verifies
\* for its leaf against that root once the accumulator has grown.
C3_RootStability ==
  [][ /\ (pr.built /\ ret'.op = "add_leaf") => pr' = pr
      /\ (ret'.op = "verify" /\ ret'.arg = At(leaves', pr'.normal_index)
            /\ pr'.mmr_size < Len(elements'))
         => (~ret'.panicked /\ ret'.val = TRUE) ]_vars

C3_Witness ==
  /\ VerifiedOwnLeaf /\ pr.built
  /\ pr.mmr_size = 4 /\ Len(elements) = 19 /\ pr.normal_index = 2
  /\ pr.root # hash_or_noop_digests(get_peaks(elements).val)
  /\ ~ret.panicked /\ ret.val = TRUE

\* C4: after n >= 0 insertions get_peaks returns popcount(n) digests, the
\* empty list for n = 0, and does not fail.
C4_PeakCount ==
  ret.op = "get_peaks" => (~ret.panicked /\ Len(ret.val) = PopCount(Len(leaves)))

\* C5: after n >= 0 completed add_leaf calls on a new MMR the accumulator
\* holds 2n - popcount(n) elements.
C5_ElementCount == Len(elements) = 2 * Len(leaves) - PopCount(Len(leaves))

C5_Witness ==
  /\ ret.op = "add_leaf" /\ Len(leaves) = 23 /\ Len(elements) = 42

\* C6: append only. Every add_leaf, of MMR and of naive_MMR, leaves the
\* elements stored before it in place and adds at least one behind them, and
\* no step takes an element away or rewrites one.
C6_AppendOnly ==
  [][ /\ IsPrefix(elements, elements')
      /\ IsPrefix(naive.elements, naive'.elements)
      /\ ret'.op = "add_leaf" => IsStrictPrefix(elements, elements')
      /\ ret'.op = "naive_add_leaf" => IsStrictPrefix(naive.elements, naive'.elements)
    ]_vars

C6_Witness ==
  /\ ret.op = "naive_add_leaf"
  /\ naive.nr_leaves = 8 /\ Len(naive.elements) = 15
  /\ Len(leaves) = 8 /\ Len(elements) = 15

\* C7: for n >= 1 get_peaks lists one peak per set bit of n, the tallest
\* mountain first and the heights strictly decreasing; its i-th entry is the
\* element at the end of the first i mountains and its last entry is the last
\* element. For 7 leaves these are the elements 6, 9, 10 and for 31 leaves the
\* elements 30, 45, 52, 55, 56.
C7_PeakPositions ==
  (ret.op = "get_peaks" /\ Len(leaves) >= 1) =>
    LET hs == HeightsOf(Len(leaves))
    IN  /\ ~ret.panicked
        /\ Len(ret.val) = Len(hs)
        /\ \A i \in 1..Len(hs) :
             /\ ret.val[i] = At(elements, SizeOfFirst(hs, i) - 1)
             /\ DigestHeight(ret.val[i]) = hs[i]
             /\ i > 1 => DigestHeight(ret.val[i]) < DigestHeight(ret.val[i - 1])
        /\ ret.val[Len(hs)] = At(elements, Len(elements) - 1)
        /\ Len(leaves) = 7 =>
             ret.val = <<At(elements, 6), At(elements, 9), At(elements, 10)>>
        /\ Len(leaves) = 31 =>
             ret.val = <<At(elements, 30), At(elements, 45), At(elements, 52),
                         At(elements, 55), At(elements, 56)>>

C7_Witness ==
  /\ ret.op = "get_peaks" /\ Len(leaves) = 31 /\ ~ret.panicked
  /\ Len(ret.val) = 5 /\ ret.val[2] = At(elements, 45)

\* C8: get_mmr_index(k) = 2k - popcount(k) for every k >= 0, and in an MMR of
\* n > k leaves the element at that index is the hash of the (k+1)-th
\* inserted value.
C8_MmrIndex ==
  /\ ix.stage \in {"flat", "std"} =>
        /\ ~ix.flat.panicked
        /\ ix.flat.val - ix.k = ix.k - PopCount(ix.k)
  /\ \A k \in 0..(Len(leaves) - 1) :
        LET flat == get_mmr_index(k)
        IN  /\ ~flat.panicked
            /\ flat.val = 2 * k - PopCount(k)
            /\ flat.val < Len(elements)
            /\ At(elements, flat.val) = hash_or_noop_leaf(At(leaves, k))

\* The same below the width of the i32: for k < 2^30 the index is
\* 2k - popcount(k), and it is the place of the leaf in the accumulator.
MmrIndexBelowWidth ==
  /\ (ix.stage \in {"flat", "std"} /\ ix.k < Pow2(30)) =>
        /\ ~ix.flat.panicked
        /\ ix.flat.val - ix.k = ix.k - PopCount(ix.k)
  /\ \A k \in 0..(Len(leaves) - 1) :
        LET flat == get_mmr_index(k)
        IN  /\ ~flat.panicked
            /\ flat.val = 2 * k - PopCount(k)
            /\ flat.val < Len(elements)
            /\ At(elements, flat.val) = hash_or_noop_leaf(At(leaves, k))

\* C9: on a perfect mountain of m = 2^j leaves, j >= 1, get_standard_index
\* takes the flat index of the k-th leaf back to k, for every k < m.
C9_RoundTripPerfect ==
  (IsPowerOfTwo(ix.m) /\ ix.m >= 2) =>
    /\ ix.stage \in {"flat", "std"} => ~ix.flat.panicked
    /\ ix.stage = "std" => (~ix.std.panicked /\ ix.std.val = ix.k)

\* The same for the mountains whose element count 2m - 1 the i32 of
\* get_nr_elms holds with overflow checks on, m < 2^30.
RoundTripPerfectBelowWidth ==
  (IsPowerOfTwo(ix.m) /\ ix.m >= 2 /\ ix.m < Pow2(30)) =>
    /\ ix.stage \in {"flat", "std"} => ~ix.flat.panicked
    /\ ix.stage = "std" => (~ix.std.panicked /\ ix.std.val = ix.k)

\* C10: for n in {1,2,3,4,7,8,15,16,17,31,32,100} and k < n, get_mmr_index
\* followed by get_standard_index with n as the leaf count returns k and
\* neither call fails.
C10_RoundTripTested ==
  (ix.m \in TestedLeafCounts) =>
    /\ ix.stage \in {"flat", "std"} => ~ix.flat.panicked
    /\ ix.stage = "std" => (~ix.std.panicked /\ ix.std.val = ix.k)

\* The accumulator size after n insertions.
SizeAfter(n) == 2 * n - PopCount(n)

IsProofObject(v) == DOMAIN v = {"mmr_size", "merkle_proof", "peaks"}

\* C13: get_proof with a flat index past the last element, and
\* get_proof_normal_index with a normal index past the last leaf (every index,
\* on an empty accumulator), report an error: the call neither panics nor
\* returns a proof object.
C13_OutOfRangeIsReported ==
  ret.op \in {"get_proof_beyond", "get_proof_normal_index_beyond"} =>
    (~ret.panicked /\ ~IsProofObject(ret.val))

\* What the calls do instead: on an empty accumulator they panic, and on an
\* accumulator with elements they panic or hand back a proof object that
\* carries the accumulator's peaks.
BeyondPanicsOrReturnsProof ==
  ret.op \in {"get_proof_beyond", "get_proof_normal_index_beyond"} =>
    /\ Len(elements) = 0 => ret.panicked
    /\ ~ret.panicked =>
         /\ IsProofObject(ret.val)
         /\ ret.val.mmr_size = Len(elements)
         /\ ret.val.peaks = get_peaks(elements).val

\* The height of the mountain that holds leaf k, among mountains of heights
\* hs[i..] of which the first starts at leaf number `first`.
RECURSIVE MountainOfLeaf(_, _, _, _)
MountainOfLeaf(hs, i, first, k) ==
  IF k < first + Pow2(hs[i]) THEN hs[i]
  ELSE MountainOfLeaf(hs, i + 1, first + Pow2(hs[i]), k)

\* Bit j of k.
Bit(k, j) == (k \div Pow2(j)) % 2

\* C14: for n >= 1 and k < n the path of get_proof_normal_index(k) is as long
\* as the mountain of leaf k is high (empty when the leaf is a peak), and the
\* j-th entry has its sibling on the left exactly when bit j of k is set. For
\* n = 3, k = 2 the path is empty and there are 2 peaks; for n = 7, k = 0 the
\* path has 2 entries and there are 3 peaks.
C14_PathShape ==
  (ret.op = "get_proof" /\ ~ret.panicked) =>
    LET n == Len(leaves)
        k == pr.normal_index
        H == MountainOfLeaf(HeightsOf(n), 1, 0, k)
    IN  /\ pr.built /\ k = ret.arg
        /\ Len(pr.merkle_proof) = H
        /\ \A j \in 0..(H - 1) : At(pr.merkle_proof, j)[2] = (Bit(k, j) = 1)
        /\ (n = 3 /\ k = 2) => (pr.merkle_proof = <<>> /\ Len(pr.peaks) = 2)
        /\ (n = 7 /\ k = 0) => (Len(pr.merkle_proof) = 2 /\ Len(pr.peaks) = 3)

C14_Witness ==
  /\ ret.op = "get_proof" /\ ~ret.panicked
  /\ Len(leaves) = 7 /\ pr.normal_index = 0
  /\ Len(pr.merkle_proof) = 2 /\ Len(pr.peaks) = 3
  /\ ~pr.merkle_proof[1][2] /\ ~pr.merkle_proof[2][2]

\* The peaks of an accumulator of n leaves, tallest mountain first, read off
\* its elements: the last element of each mountain.
PeaksOf(elems, n) ==
  LET hs == HeightsOf(n)
  IN  [i \in 1..Len(hs) |-> At(elems, SizeOfFirst(hs, i) - 1)]

\* The root the specification gives an accumulator of n >= 1 leaves: the peak
\* itself when there is one, the hash over all peaks otherwise.
BaggedRoot(elems, n) ==
  IF IsPowerOfTwo(n) THEN At(elems, Len(elems) - 1)
  ELSE hash_no_pad_digests(PeaksOf(elems, n))

\* C15: bagging_the_peaks returns the peak itself when the accumulator has
\* one peak (a power of two of leaves) and otherwise the hash over all peaks,
\* tallest first; MMR and naive_MMR alike.
C15_Bagging ==
  /\ (ret.op = "bagging_the_peaks" /\ Len(leaves) >= 1) =>
        (~ret.panicked /\ ret.val = BaggedRoot(elements, Len(leaves)))
  /\ ret.op = "naive_bagging_the_peaks" =>
        (~ret.panicked /\ ret.val = BaggedRoot(naive.elements, naive.nr_leaves))

\* The same without the naive_MMR that naive_MMR::new has just made, whose
\* peaks field is empty.
BaggingPastNew ==
  /\ (ret.op = "bagging_the_peaks" /\ Len(leaves) >= 1) =>
        (~ret.panicked /\ ret.val = BaggedRoot(elements, Len(leaves)))
  /\ (ret.op = "naive_bagging_the_peaks" /\ naive.nr_leaves >= 2) =>
        (~ret.panicked /\ ret.val = BaggedRoot(naive.elements, naive.nr_leaves))

\* Flat index i is the place of a leaf in a mountain of m leaves.
IsLeafPosition(i, m) == \E k \in 0..(m - 1) : i = SizeAfter(k)

\* C16: the index mappings report input that is out of range. For a flat
\* index i that is no leaf position of a mountain of m = 2^j leaves (the
\* place of an inner node, or past its 2m - 1 elements) get_standard_index
\* fails instead of returning an index, and get_mmr_index fails for a normal
\* index whose flat index the i32 it computes in cannot hold.
C16_OutOfRangeIndexReported ==
  /\ (ix.stage = "mapped" /\ IsPowerOfTwo(ix.m) /\ ix.m >= 2
        /\ ~IsLeafPosition(ix.flat.val, ix.m)) => ix.std.panicked
  /\ (ix.stage \in {"flat", "std"} /\ ix.k > Pow2(30)) => ix.flat.panicked

\* What get_standard_index does with the place of an inner node or a place
\* past the mountain of 2 or 4 leaves: it answers with an index all the same.
StandardIndexOfNoLeaf ==
  (ix.stage = "mapped" /\ ix.m \in {2, 4} /\ ~IsLeafPosition(ix.flat.val, ix.m)) =>
    (~ix.std.panicked /\ ix.std.val = ix.flat.val - 1)

\* C17: proof completeness of naive_MMR. For n >= 1 and the flat index i of
\* any of its leaves, get_proof(i) returns, and verify_proof on what it
\* returned, the value of the leaf and the bagged root returns true.
C17_NaiveProofCompleteness ==
  /\ ret.op = "naive_get_proof" => ~ret.panicked
  /\ ret.op = "naive_verify_proof" => (~ret.panicked /\ ret.val = TRUE)

\* The leaf at flat index i is a mountain by itself: the last leaf of an odd
\* number of leaves.
IsLoneLeaf(mmr, i) == i = Len(mmr.elements) - 1 /\ At(mmr.heights, i) = 0

\* Where C17 holds and where it does not: the proof of a leaf that has a
\* sibling is returned and verifies; the proof of a lone leaf is never
\* returned, get_proof panics.
NaiveProofsOfPairedLeaves ==
  /\ ret.op = "naive_get_proof" => (ret.panicked <=> IsLoneLeaf(naive, ret.arg))
  /\ ret.op = "naive_verify_proof" => (~ret.panicked /\ ret.val = TRUE)

\* The two accumulators have been given the same leaves.
SameLeaves == Len(leaves) = naive.nr_leaves

\* C18: naive_MMR (new and n - 1 add_leaf) and MMR (n add_leaf) given the
\* same n >= 1 leaves hold the same elements, entry by entry.
C18_SameElements == SameLeaves => elements = naive.elements

C18_Witness ==
  /\ SameLeaves /\ Len(leaves) = 13
  /\ Len(elements) = 23 /\ Len(naive.elements) = 23
  /\ At(naive.elements, 22) = At(elements, 22)

\* C19: for n >= 1 the peaks field of a naive_MMR of n leaves has popcount(n)
\* entries, tallest mountain first, and is what MMR::get_peaks returns on the
\* MMR of the same leaves, so that both bag to the same root.
C19_SamePeaks ==
  /\ Len(naive.peaks) = PopCount(naive.nr_leaves)
  /\ naive.peaks = PeaksOf(naive.elements, naive.nr_leaves)
  /\ (SameLeaves /\ ret.op = "get_peaks") => (~ret.panicked /\ ret.val = naive.peaks)
  /\ (SameLeaves /\ ret.op = "bagging_the_peaks") =>
        (~ret.panicked /\ ret.val = naive_bagging_the_peaks(naive))

\* The same from the first add_leaf on: only the naive_MMR that
\* naive_MMR::new has just made has a peaks field that differs.
SamePeaksPastNew ==
  naive.nr_leaves >= 2 =>
    /\ Len(naive.peaks) = PopCount(naive.nr_leaves)
    /\ naive.peaks = PeaksOf(naive.elements, naive.nr_leaves)
    /\ (SameLeaves /\ ret.op = "get_peaks") => (~ret.panicked /\ ret.val = naive.peaks)
    /\ (SameLeaves /\ ret.op = "bagging_the_peaks") =>
          (~ret.panicked /\ ret.val = naive_bagging_the_peaks(naive))

\* C20: witness round trip of IncrementalTree. For depth d >= 1, at most 2^d
\* distinct non-zero leaves and any leaf among them, not only the last,
\* check_proof on the (siblings, pos) that witness returns for the leaf is
\* true against the current root.
C20_WitnessRoundTrip ==
  /\ (ret.op = "witness" /\ ret.arg < tree.position) => ~ret.panicked
  /\ ret.op = "check_proof" => ret.val = TRUE

\* No leaf inserted after leaf i fills a place to the right of its path: at
\* every level, the node of leaf i is a right child or the last node.
PathHasNoRightSibling(i) ==
  \A level \in 0..(tree.depth - 1) :
    LET index == i \div Pow2(level)
    IN  index % 2 = 1 \/ index = (tree.position - 1) \div Pow2(level)

\* Where C20 holds and where it does not: witness gives an even place the
\* zero digest of its level for a sibling, so the round trip is true exactly
\* for the leaves with nothing inserted to the right of their path, the
\* last leaf among them.
WitnessOfRightmostPath ==
  /\ (ret.op = "witness" /\ ret.arg < tree.position) => ~ret.panicked
  /\ ret.op = "check_proof" => (ret.val = PathHasNoRightSibling(ret.arg))
  /\ (ret.op = "check_proof" /\ ret.arg = tree.position - 1) => ret.val = TRUE

\* ------------------------------------------------------------------- C21

\* The insert that the last step made was of the zero value, or into a tree
\* that held 2^depth leaves.
InsertToReject(t, leaf) ==
  leaf = At(t.zeroes, 0) \/ t.position = Pow2(t.depth)

\* C21: an insert of the reserved zero value, or into a tree that already
\* holds 2^depth leaves, panics, and root, zeroes, nodes, depth and position
\* are after the call what they were before it; no insert that panics changes
\* the tree.
C21_RejectedInsertLeavesTree ==
  [][ret'.op = "insert"
       => /\ InsertToReject(tree, ret'.arg) => ret'.panicked
          /\ ret'.panicked => tree' = tree]_vars

\* a non-zero leaf was refused by a full tree of depth 2, which holds four
\* leaves and a root that is not the empty one
C21_Witness ==
  /\ ret.op = "insert" /\ ret.panicked /\ ret.arg # zero_hash
  /\ tree.depth = 2 /\ tree.position = 4 /\ Len(At(tree.nodes, 0)) = 4
  /\ tree.root # At(tree.zeroes, 2)

\* ------------------------------------------------------------------- C22

\* MMR_proof::verify accepts: it returns, and returns true.
NativeAccepts(proof, leaf, root) ==
  \E r \in {verify(proof, leaf, root)} : ~r.panicked /\ r.val = TRUE

\* C22: the circuit of verify_mmr_proof_circuit is satisfied by (leaf, path
\* with flags, peaks) and the public root exactly when MMR_proof::verify accepts
\* the same leaf, path, peaks and root.
C22_CircuitIsNativeVerify ==
  ret.op = "circuit"
    => ((~ret.panicked /\ ret.val = TRUE) <=> NativeAccepts(pr, ret.arg, pr.root))

\* The two verifiers agree on every proof whose path is not empty, and the
\* circuit accepts whatever the native verifier accepts.
CircuitAgreesOnPaths ==
  ret.op = "circuit"
    => /\ Len(pr.merkle_proof) > 0
            => ((~ret.panicked /\ ret.val = TRUE) <=> NativeAccepts(pr, ret.arg, pr.root))
       /\ NativeAccepts(pr, ret.arg, pr.root) => (~ret.panicked /\ ret.val = TRUE)

\* ------------------------------------------------------------------- C28

\* C28: equal(first, second) is true exactly when the two digests have the
\* same four field elements, and false when they differ in at least one.
C28_EqualComparesAllElements ==
  ret.op = "equal"
    => (ret.val = TRUE <=> HashOut_elements(ret.arg[1]) = HashOut_elements(ret.arg[2]))

\* equal never misses two digests that are the same
EqualOfSameDigests ==
  (ret.op = "equal" /\ ret.arg[1] = ret.arg[2]) => ret.val = TRUE

\* ------------------------------------------------------------------- C23

\* The number of trailing 1 bits of n.
RECURSIVE TrailingOnes(_)
TrailingOnes(n) == IF n % 2 = 1 THEN 1 + TrailingOnes(n \div 2) ELSE 0

\* C23: add_leaf on an accumulator of n >= 0 leaves appends exactly 1 + t
\* elements, t the number of trailing 1 bits of n: the leaf hash, then one
\* merge node for each carry, of heights 1..t, the last one at the lowest
\* height at which n has no peak.
C23_BinaryCounterIncrement ==
  [][(ret'.op = "add_leaf" /\ Len(leaves') = Len(leaves) + 1) =>
       LET n == Len(leaves)
           t == TrailingOnes(n)
           old == Len(elements)
       IN  /\ Len(elements') = old + 1 + t
           /\ elements'[old + 1] = hash_or_noop_leaf(leaves'[n + 1])
           /\ \A j \in 1..t : DigestHeight(elements'[old + 1 + j]) = j
           /\ Bit(n, t) = 0 /\ \A j \in 0..(t - 1) : Bit(n, j) = 1]_vars

\* the sixteenth leaf has carried through four heights: five elements appended
C23_Witness ==
  /\ ret.op = "add_leaf" /\ Len(leaves) = 16 /\ Len(elements) = 31
  /\ DigestHeight(elements[31]) = 4 /\ DigestHeight(elements[27]) = 0

\* ------------------------------------------------------------------- C24

\* The elements that whole calls of add_leaf build from the first n leaves.
RECURSIVE ElementsOf(_, _)
ElementsOf(ls, n) ==
  IF n = 0 THEN <<>> ELSE add_leaf(ElementsOf(ls, n - 1), ls[n])

\* The pushes of an add_leaf, taken one at a time, end in the elements that
\* the call as a whole builds.
PushesMakeAddLeaf ==
  ~adding.active => elements = ElementsOf(leaves, Len(leaves))

\* add_leaf has pushed and will push again.
BetweenTwoPushes ==
  adding.active /\ adding.peaks > 0 /\ adding.peaks % 2 = 1

\* C24: get_heights_bitmap_for_mmr_size(elements.len()).1 is 0 in every
\* state in which no add_leaf is in progress, and is not 0 in every state
\* between two pushes of one add_leaf, where the length is 2m - popcount(m)
\* for no m; a reader at that moment is given the non-zero remainder.
C24_IntermediateStatesInvalid ==
  LET rem == get_heights_bitmap_for_mmr_size(Len(elements))[2]
  IN  /\ ~adding.active => rem = 0
      /\ BetweenTwoPushes =>
           /\ rem # 0
           /\ \A m \in 0..Len(elements) : SizeAfter(m) # Len(elements)
           /\ ret.op = "read_heights_bitmap" => ret.val[2] # 0

\* a reader between the third and the fourth push of the add_leaf of the
\* eighth leaf: 14 elements
C24_Witness ==
  /\ BetweenTwoPushes /\ ret.op = "read_heights_bitmap"
  /\ Len(leaves) = 8 /\ Len(elements) = 14 /\ adding.height = 3

\* ------------------------------------------------------------------- C25

\* The sum of 2^(b+1) - 1 over the set bits of bitmap, of which b is the lowest.
RECURSIVE SizeOfMountains(_, _)
SizeOfMountains(bitmap, b) ==
  IF bitmap = 0 THEN 0
  ELSE (bitmap % 2) * (Pow2(b + 1) - 1) + SizeOfMountains(bitmap \div 2, b + 1)

RECURSIVE PerfectRoot(_, _, _)
PerfectRoot(ls, first, h) ==
  IF h = 0 THEN hash_or_noop_leaf(ls[first + 1])
  ELSE two_to_one(PerfectRoot(ls, first, h - 1),
                  PerfectRoot(ls, first + Pow2(h - 1), h - 1))

\* The elements of one mountain of height h over those leaves: the left half,
\* the right half, then the merge of their two roots.
RECURSIVE MountainElements(_, _, _)
MountainElements(ls, first, h) ==
  IF h = 0 THEN <<hash_or_noop_leaf(ls[first + 1])>>
  ELSE MountainElements(ls, first, h - 1)
         \o MountainElements(ls, first + Pow2(h - 1), h - 1)
         \o <<PerfectRoot(ls, first, h)>>

\* The elements of the mountains hs[i..], the first of which starts at leaf `first`.
RECURSIVE RangeElements(_, _, _, _)
RangeElements(ls, hs, i, first) ==
  IF i > Len(hs) THEN <<>>
  ELSE MountainElements(ls, first, hs[i])
         \o RangeElements(ls, hs, i + 1, first + Pow2(hs[i]))

\* The number of leaves in the first i mountains of heights hs.
RECURSIVE LeavesOfFirst(_, _)
LeavesOfFirst(hs, i) ==
  IF i = 0 THEN 0 ELSE LeavesOfFirst(hs, i - 1) + Pow2(hs[i])

\* The leaves given to the naive accumulator so far.
NaiveLeaves == [i \in 1..naive.nr_leaves |-> NextLeaf(i - 1)]

\* elems is the range over the leaves ls: every element of height h >= 1 is the
\* merge of its left child, over the earlier 2^(h-1) leaves, and its right
\* child, and every peak is the perfect root over its leaves.
IsOrderedRange(elems, ls) ==
  LET hs == HeightsOf(Len(ls))
  IN  /\ elems = RangeElements(ls, hs, 1, 0)
      /\ \A i \in 1..Len(hs) :
           At(elems, SizeOfFirst(hs, i) - 1) = PerfectRoot(ls, LeavesOfFirst(hs, i - 1), hs[i])

\* C26: after any number of insertions every element of height h >= 1 is
\* merge(left child, right child), the left child over the earlier 2^(h-1)
\* leaves, so that each peak of height h is the perfect binary Merkle root of
\* its 2^h consecutive leaves in insertion order; in MMR and in naive_MMR.
C26_OrderedMerkleRoots ==
  /\ IsOrderedRange(elements, leaves)
  /\ IsOrderedRange(naive.elements, NaiveLeaves)

\* 14 leaves in the one and 12 in the other: mountains of 8, 4 and 2, and of
\* 8 and 4 leaves
C26_Witness ==
  /\ Len(leaves) = 14 /\ naive.nr_leaves = 12
  /\ Len(elements) = 25 /\ DigestHeight(elements[15]) = 3
  /\ elements[15][2] = elements[7] /\ elements[15][3] = elements[14]

\* ------------------------------------------------------------------- C27

\* The values a caller may put in the place of a leaf: those of all leaves,
\* one that was never inserted, and zero.
SubstituteValues == 0..(MaxLeaves + 1)

\* C27: for every accumulator, every leaf k and every value v other than the
\* one inserted at k, verify(v, root) on the proof built for k does not return
\* true: it returns false or it panics.
C27_SubstitutedLeafRejected ==
  /\ (ret.op = "verify" /\ ret.arg # At(leaves, pr.normal_index)) =>
        (ret.panicked \/ ret.val = FALSE)
  /\ pr.built =>
       \A v \in SubstituteValues \ {At(leaves, pr.normal_index)} :
         ~NativeAccepts(pr, v, pr.root)

\* the proof of leaf 5 of 11, verified for another value, was refused
C27_Witness ==
  /\ ProofIsFresh /\ ret.op = "verify" /\ ret.arg # At(leaves, pr.normal_index)
  /\ Len(leaves) = 11 /\ pr.normal_index = 5 /\ Len(pr.merkle_proof) = 3
  /\ ret.panicked

\* ------------------------------------------------------------------- C29

\* The 2^depth leaves of a tree that was given k leaves: those, in order, and
\* the zero value in every other place.
PaddedLeaves(depth, k) ==
  [i \in 1..Pow2(depth) |-> IF i <= k THEN TreeLeaf(i - 1) ELSE zero_hash]

\* The Merkle root of the perfect binary tree over the 2^h digests
\* ds[first + 1 .. first + 2^h].
RECURSIVE RootOver(_, _, _)
RootOver(ds, first, h) ==
  IF h = 0 THEN ds[first + 1]
  ELSE two_to_one(RootOver(ds, first, h - 1), RootOver(ds, first + Pow2(h - 1), h - 1))

\* The number of inserts that were accepted: all were of the next leaf.
AcceptedInserts == Len(At(tree.nodes, 0))

\* C29: after k <= 2^depth accepted inserts root() is the Merkle root of the
\* perfect tree of 2^depth leaves of which the first k are the inserted values
\* in order and the others the zero value (zeroes[depth] before any insert),
\* and position = k = nodes[0].len().
C29_RootOfPaddedTree ==
  tree.depth >= 1 =>
    /\ tree.position = AcceptedInserts
    /\ \A i \in 1..AcceptedInserts : At(tree.nodes, 0)[i] = TreeLeaf(i - 1)
    /\ tree.root = RootOver(PaddedLeaves(tree.depth, tree.position), 0, tree.depth)
    /\ tree.position = 0 => tree.root = At(tree.zeroes, tree.depth)

\* five leaves in a tree of depth 3
C29_Witness ==
  /\ tree.depth = 3 /\ tree.position = 5 /\ ret.op = "insert" /\ ~ret.panicked
  /\ tree.root # At(tree.zeroes, 3)

\* ------------------------------------------------------------------- C30

\* C30: for every n >= 1 bagging_the_peaks() after the (n+1)-th add_leaf
\* differs from its value after the n-th, and a proof that carries the peaks
\* of size n is rejected by verify against the root of every size n2 > n.
C30_EveryInsertionChangesRoot ==
  [][/\ (ret'.op = "add_leaf" /\ Len(leaves') = Len(leaves) + 1 /\ Len(leaves) >= 1) =>
          /\ ~bagging_the_peaks(elements).panicked
          /\ ~bagging_the_peaks(elements').panicked
          /\ bagging_the_peaks(elements').val # bagging_the_peaks(elements).val
     /\ (ret'.op = "verify_newer" /\ pr'.mmr_size < Len(elements')) =>
          (ret'.panicked \/ ret'.val = FALSE)
     /\ (ret'.op = "verify_newer" /\ pr'.mmr_size = Len(elements')) =>
          (~ret'.panicked /\ ret'.val = TRUE)]_vars

\* a proof built at 5 leaves was verified against the root of 12 leaves and
\* returned false
C30_Witness ==
  /\ ret.op = "verify_newer" /\ ~ret.panicked /\ ret.val = FALSE
  /\ pr.mmr_size = 8 /\ Len(leaves) = 12 /\ ret.arg = 12

====
